---- MODULE Spec2Model ----
(***************************************************************************)
(* Model of server.js: the telemetry ingest handler with its threshold /   *)
(* cooldown alert, the chat webhook, and the sensor / profile              *)
(* administration routes, over the Measurement, Sensor and User            *)
(* collections.                                                            *)
(*                                                                         *)
(* Handlers whose awaits are interleaved with writes of other requests     *)
(* (POST /api/data, DELETE /api/sensors/:hardwareId) are split at those    *)
(* awaits; the other handlers are one action each.                         *)
(***************************************************************************)
EXTENDS Integers, Sequences, FiniteSets, TLC

(***************************************************************************)
(* Bounds of the model.                                                    *)
(***************************************************************************)
MaxTicks == 2
MaxRequests == 2

(***************************************************************************)
(* Program constants.                                                      *)
(***************************************************************************)
DefaultCooldownMin == 30
MsPerMin == 60000
DefaultHistoryLimit == 100
ChartLimit == 10

(***************************************************************************)
(* Value domains of the requests.                                          *)
(***************************************************************************)
Users == {"u1", "u2"}
HardwareIds == {"H1", "H2"}
Temps == {5, 6}
Volts == {3}
Thresholds == {5}
IngestProcs == {1, 2}
DeleteProcs == {1}

\* null / undefined instant (Date objects are never falsy, so a value
\* outside the clock's range stands for it)
NullTime == -1

\* elapsed time the clock may jump by in one step
TimeSteps == {1, DefaultCooldownMin * MsPerMin}

\* values of process.env.ALERT_COOLDOWN, as character sequences; <<>> is
\* the unset (or empty) variable
CooldownEnvs == {<< >>, <<"1">>, <<"a", "b", "c">>}

VARIABLES
    now,               \* the wall clock, in ms since the process started
    ticks,             \* number of clock advances so far
    served,            \* number of requests accepted so far
    envCooldown,       \* process.env.ALERT_COOLDOWN
    users,             \* the User collection: _id -> document
    sensors,           \* the Sensor collection: set of documents
    nextId,            \* next fresh Sensor _id
    measurements,      \* the Measurement collection, in insertion order
    outbox,            \* messages posted to the chat platform, in order
    ingest,            \* POST /api/data calls in flight
    del,               \* DELETE /api/sensors/:hardwareId calls in flight
    last,              \* the most recent completed request and its answer
    lastDeviceStatus   \* the heartbeat snapshot

vars == <<now, ticks, served, envCooldown, users, sensors, nextId,
          measurements, outbox, ingest, del, last, lastDeviceStatus>>

store == <<users, sensors, nextId, measurements>>

(***************************************************************************)
(* JavaScript numbers, as far as the handlers use them: an integer or NaN. *)
(***************************************************************************)
Num(n) == [nan |-> FALSE, val |-> n]

NaN == [nan |-> TRUE, val |-> 0]

Times(a, n) == IF a.nan THEN NaN ELSE Num(a.val * n)

\* a > b on numbers: false as soon as one side is NaN
Gt(a, b) == ~a.nan /\ ~b.nan /\ a.val > b.val

Digits == {"0", "1", "2", "3", "4", "5", "6", "7", "8", "9"}

DigitVal(c) ==
    CASE c = "0" -> 0 [] c = "1" -> 1 [] c = "2" -> 2 [] c = "3" -> 3
      [] c = "4" -> 4 [] c = "5" -> 5 [] c = "6" -> 6 [] c = "7" -> 7
      [] c = "8" -> 8 [] OTHER -> 9

RECURSIVE DecimalVal(_)
DecimalVal(s) ==
    IF s = << >> THEN 0
    ELSE 10 * DecimalVal(SubSeq(s, 1, Len(s) - 1)) + DigitVal(s[Len(s)])

\* the string-to-number coercion of `*`: the digits' value, NaN for a text
\* that is no numeral
ToNumber(s) ==
    IF s = << >> THEN Num(0)
    ELSE IF \A i \in 1..Len(s) : s[i] \in Digits THEN Num(DecimalVal(s))
    ELSE NaN

\* (process.env.ALERT_COOLDOWN || 30) * 60000
cooldownMs(env) ==
    Times(IF env = << >> THEN Num(DefaultCooldownMin) ELSE ToNumber(env),
          MsPerMin)

(***************************************************************************)
(* Documents.                                                              *)
(***************************************************************************)
FriendlyNames == {<<"A", "b">>, <<"b">>}

NoSensor ==
    [id |-> 0, hardwareId |-> "", friendlyName |-> << >>,
     alertThreshold |-> 0, owner |-> "", enabled |-> FALSE,
     lastAlertSent |-> NullTime]

NoUser == [password |-> << >>, whatsapp |-> ""]

\* a lookup that does not filter on hardwareId
FindSensorAny(coll, hardwareId) ==
    IF coll # {} THEN CHOOSE s \in coll : TRUE ELSE NoSensor

\* Sensor.findOne({ hardwareId }): hardwareId is unique in the collection
FindSensor(coll, hardwareId) ==
    IF \E s \in coll : s.hardwareId = hardwareId
    THEN CHOOSE s \in coll : s.hardwareId = hardwareId
    ELSE NoSensor

\* Sensor.findOne({ hardwareId, owner })
FindOwnedSensor(coll, hardwareId, owner) ==
    IF \E s \in coll : s.hardwareId = hardwareId /\ s.owner = owner
    THEN CHOOSE s \in coll : s.hardwareId = hardwareId /\ s.owner = owner
    ELSE NoSensor

\* .populate("owner"): the referenced User document, null when there is none
Populate(coll, owner) == IF owner \in DOMAIN coll THEN coll[owner] ELSE NoUser

(***************************************************************************)
(* Outbound messages: the recipient, the content, whether the chat         *)
(* platform accepted the post, and the number of the request that posted   *)
(* it.                                                                     *)
(***************************************************************************)
Message(number, content, ok, n) ==
    [number |-> number, content |-> content, ok |-> ok, n |-> n]

\* the text built by sendWhatsAppAlert
mensaje(sensorName, temp) == <<"ALERTA", sensorName, temp>>

(***************************************************************************)
(* POST /api/data                                                          *)
(***************************************************************************)
IdleIngest ==
    [pc |-> "idle", n |-> 0, sensorId |-> "", tempC |-> 0, voltageV |-> 0,
     sensor |-> NoSensor, owner |-> NoUser, read |-> NullTime,
     saved |-> FALSE, ahora |-> NullTime, rejected |-> FALSE, status |-> 0,
     body |-> ""]

Respond(call, status, body) ==
    [call EXCEPT !.pc = "done", !.status = status, !.body = body]

\* a catch block that answers a rejected store call with success
RejectSilently(call, status, body) ==
    Respond([call EXCEPT !.rejected = TRUE], 200, "OK")

\* a store call of the request rejected and the catch block answers
Reject(call, status, body) ==
    Respond([call EXCEPT !.rejected = TRUE], status, body)

\* a store call rejected in a handler without a catch block: no answer
Unanswered(call) == [call EXCEPT !.pc = "unanswered", !.rejected = TRUE]

\* the record of an answered request: its number in arrival order, route,
\* authenticated user, request parameters, status and body, and whether a
\* store call of it rejected
Answer(n, route, user, req, status, body, rejected) ==
    [n |-> n, route |-> route, user |-> user, req |-> req, status |-> status,
     body |-> body, rejected |-> rejected]

NoAnswer == Answer(0, "", "", << >>, 0, "", FALSE)

\* the most recent answer after a step of a call of a split handler
Answered(prev, route, user, call) ==
    IF call.pc = "done"
    THEN Answer(call.n, route, user, <<call.sensorId>>, call.status,
                call.body, call.rejected)
    ELSE prev

\* the slot a new call is recorded in: the lowest that never held a call,
\* else the lowest whose call is answered, else none (0)
FreeSlot(calls) ==
    IF \E p \in DOMAIN calls : calls[p].pc = "idle"
    THEN CHOOSE p \in DOMAIN calls :
             /\ calls[p].pc = "idle"
             /\ \A q \in DOMAIN calls : calls[q].pc = "idle" => p <= q
    ELSE IF \E p \in DOMAIN calls : calls[p].pc \in {"done", "unanswered"}
    THEN CHOOSE p \in DOMAIN calls :
             /\ calls[p].pc \in {"done", "unanswered"}
             /\ \A q \in DOMAIN calls :
                    calls[q].pc \in {"done", "unanswered"} => p <= q
    ELSE 0

\* tempC > sensor.alertThreshold && sensor.owner?.whatsapp
AboveThreshold(tempC, sensor, owner) ==
    tempC > sensor.alertThreshold /\ owner.whatsapp # ""

\* a >= b on numbers
Gte(a, b) == ~a.nan /\ ~b.nan /\ a.val >= b.val

\* the cooldown check with the window's last instant counted as expired
CooldownExpiredInclusive(sensor, ahora, cooldown) ==
    \/ sensor.lastAlertSent = NullTime
    \/ Gte(Num(ahora - sensor.lastAlertSent), cooldown)

\* the cooldown check with the comparison turned around
CooldownExpiredReversed(sensor, ahora, cooldown) ==
    \/ sensor.lastAlertSent = NullTime
    \/ Gt(cooldown, Num(ahora - sensor.lastAlertSent))

\* !sensor.lastAlertSent || ahora - sensor.lastAlertSent > cooldownMs
CooldownExpired(sensor, ahora, cooldown) ==
    \/ sensor.lastAlertSent = NullTime
    \/ Gt(Num(ahora - sensor.lastAlertSent), cooldown)

\* the request arrives and Sensor.findOne(...).populate("owner") is answered
\* (n is the number of the request in arrival order)
IngestFind(p, sensorId, tempC, voltageV, dbOk) ==
    /\ p = FreeSlot(ingest)
    /\ served < MaxRequests
    /\ served' = served + 1
    /\ LET call == [IdleIngest EXCEPT !.n = served + 1,
                                      !.sensorId = sensorId, !.tempC = tempC,
                                      !.voltageV = voltageV]
           sensor == FindSensor(sensors, sensorId)
       IN  ingest' = [ingest EXCEPT ![p] =
               IF ~dbOk THEN Reject(call, 500, "Error")
               ELSE IF sensor = NoSensor
                    THEN Respond(call, 404, "Sensor no configurado")
               ELSE [call EXCEPT !.pc = "save", !.sensor = sensor,
                                 !.read = sensor.lastAlertSent,
                                 !.owner = Populate(users, sensor.owner)]]
    /\ last' = Answered(last, "data", "", ingest'[p])
    /\ UNCHANGED <<now, ticks, envCooldown, store, outbox, del,
                   lastDeviceStatus>>

\* a Measurement document: timestamp defaults to the creation time
NewMeasurement(sensorId, temperatureC, voltageV, at) ==
    [sensorId |-> sensorId, temperatureC |-> temperatureC,
     voltageV |-> voltageV, timestamp |-> at]

\* a post whose failure reaches the handler's catch block
AlertedUncaught(call, ahora, sendOk) ==
    IF sendOk
    THEN [call EXCEPT !.pc = "saveSensor", !.saved = TRUE, !.ahora = ahora,
                      !.sensor.lastAlertSent = ahora]
    ELSE Respond([call EXCEPT !.saved = TRUE, !.ahora = ahora], 500, "Error")

\* the call after sendWhatsAppAlert returned: responderWhatsApp catches a
\* failed post, so either way the handler sets sensor.lastAlertSent = ahora
\* and goes on to sensor.save()
Alerted(call, ahora, sendOk) ==
    [call EXCEPT !.pc = "saveSensor", !.saved = TRUE, !.ahora = ahora,
                 !.sensor.lastAlertSent = ahora]

\* new Measurement({...}).save() is answered, then the threshold and the
\* cooldown are evaluated and, when both pass, the alert is posted
IngestSave(p, dbOk, sendOk) ==
    LET call == ingest[p] IN
    /\ call.pc = "save"
    /\ IF ~dbOk
       THEN /\ ingest' = [ingest EXCEPT ![p] = Reject(call, 500, "Error")]
            /\ UNCHANGED <<measurements, outbox>>
       ELSE /\ measurements' = Append(measurements,
                   NewMeasurement(call.sensorId, call.tempC, call.voltageV,
                                  now))
            /\ IF /\ AboveThreshold(call.tempC, call.sensor, call.owner)
                  /\ CooldownExpired(call.sensor, now, cooldownMs(envCooldown))
               THEN /\ outbox' = Append(outbox,
                           Message(call.owner.whatsapp,
                                   mensaje(call.sensor.friendlyName, call.tempC),
                                   sendOk, call.n))
                    /\ ingest' = [ingest EXCEPT ![p] =
                           Alerted(call, now, sendOk)]
               ELSE /\ sendOk
                    /\ outbox' = outbox
                    /\ ingest' = [ingest EXCEPT ![p] =
                           Respond([call EXCEPT !.saved = TRUE, !.ahora =
                               IF AboveThreshold(call.tempC, call.sensor,
                                                 call.owner)
                               THEN now ELSE NullTime], 200, "OK")]
    /\ last' = Answered(last, "data", "", ingest'[p])
    /\ UNCHANGED <<now, ticks, served, envCooldown, users, sensors, nextId,
                   del, lastDeviceStatus>>

\* a save that writes the whole copy the call holds over the stored document
IngestSaveSensorWhole(p, dbOk, missingThrows) ==
    LET call == ingest[p]
        present == \E s \in sensors : s.id = call.sensor.id
    IN
    /\ call.pc = "saveSensor"
    /\ present => missingThrows
    /\ IF ~dbOk \/ (~present /\ missingThrows)
       THEN /\ ingest' = [ingest EXCEPT ![p] = Reject(call, 500, "Error")]
            /\ sensors' = sensors
       ELSE /\ sensors' = {IF s.id = call.sensor.id THEN call.sensor ELSE s :
                              s \in sensors}
            /\ ingest' = [ingest EXCEPT ![p] = Respond(call, 200, "OK")]
    /\ last' = Answered(last, "data", "", ingest'[p])
    /\ UNCHANGED <<now, ticks, served, envCooldown, users, nextId,
                   measurements, outbox, del, lastDeviceStatus>>

\* sensor.save() is answered: an update of the modified path lastAlertSent
\* of the document with the call's _id.  When that document is gone the
\* driver, depending on its version, either rejects (missingThrows) or
\* updates nothing and resolves.
IngestSaveSensor(p, dbOk, missingThrows) ==
    LET call == ingest[p]
        present == \E s \in sensors : s.id = call.sensor.id
    IN
    /\ call.pc = "saveSensor"
    /\ present => missingThrows
    /\ IF ~dbOk \/ (~present /\ missingThrows)
       THEN /\ ingest' = [ingest EXCEPT ![p] = Reject(call, 500, "Error")]
            /\ sensors' = sensors
       ELSE /\ sensors' = {IF s.id = call.sensor.id
                           THEN [s EXCEPT !.lastAlertSent =
                                              call.sensor.lastAlertSent]
                           ELSE s : s \in sensors}
            /\ ingest' = [ingest EXCEPT ![p] = Respond(call, 200, "OK")]
    /\ last' = Answered(last, "data", "", ingest'[p])
    /\ UNCHANGED <<now, ticks, served, envCooldown, users, nextId,
                   measurements, outbox, del, lastDeviceStatus>>

(***************************************************************************)
(* The clock.                                                              *)
(***************************************************************************)
Tick(d) ==
    /\ ticks < MaxTicks
    /\ ticks' = ticks + 1
    /\ now' = now + d
    /\ UNCHANGED <<served, envCooldown, store, outbox, ingest, del, last,
                   lastDeviceStatus>>

(***************************************************************************)
(* DELETE /api/sensors/:hardwareId (authenticated as user).  The handler   *)
(* has no try/catch: a rejected store call leaves the request unanswered.  *)
(***************************************************************************)
IdleDelete ==
    [pc |-> "idle", n |-> 0, user |-> "", sensorId |-> "", removed |-> 0,
     rejected |-> FALSE, status |-> 0, body |-> ""]

\* Sensor.deleteOne({ hardwareId, owner }) is answered
DeleteSensor(d, user, hardwareId, dbOk) ==
    /\ d = FreeSlot(del)
    /\ served < MaxRequests
    /\ served' = served + 1
    /\ LET call == [IdleDelete EXCEPT !.n = served + 1, !.user = user,
                                      !.sensorId = hardwareId]
           doc == FindOwnedSensor(sensors, hardwareId, user)
       IN  IF ~dbOk
           THEN /\ del' = [del EXCEPT ![d] = Unanswered(call)]
                /\ sensors' = sensors
           ELSE /\ del' = [del EXCEPT ![d] =
                       [call EXCEPT !.pc = "deleteMany",
                                    !.removed = IF doc = NoSensor THEN 0 ELSE 1]]
                /\ sensors' = sensors \ {doc}
    /\ UNCHANGED <<now, ticks, envCooldown, users, nextId, measurements,
                   outbox, ingest, last, lastDeviceStatus>>

\* a deleteMany whose filter keeps the sensor's documents and drops the rest
DeleteManyOthers(coll, sensorId) ==
    SelectSeq(coll, LAMBDA m : m.sensorId = sensorId)

\* Measurement.deleteMany({ sensorId })
DeleteMany(coll, sensorId) ==
    SelectSeq(coll, LAMBDA m : m.sensorId # sensorId)

\* Measurement.deleteMany({ sensorId }) is answered, then the response is sent
DeleteMeasurements(d, dbOk) ==
    LET call == del[d] IN
    /\ call.pc = "deleteMany"
    /\ IF ~dbOk
       THEN /\ del' = [del EXCEPT ![d] = Unanswered(call)]
            /\ UNCHANGED <<measurements, last>>
       ELSE /\ measurements' = DeleteMany(measurements, call.sensorId)
            /\ del' = [del EXCEPT ![d] = Respond(call, 200, "Eliminado")]
            /\ last' = Answered(last, "delete", call.user, del'[d])
    /\ UNCHANGED <<now, ticks, served, envCooldown, users, sensors, nextId,
                   outbox, ingest, lastDeviceStatus>>

(***************************************************************************)
(* POST /api/sensors/config (authenticated as user)                        *)
(***************************************************************************)
\* a Sensor document inserted by the upsert: lastAlertSent starts null
NewSensor(id, sensorData) ==
    [id |-> id, hardwareId |-> sensorData.hardwareId,
     friendlyName |-> sensorData.friendlyName,
     alertThreshold |-> sensorData.alertThreshold,
     owner |-> sensorData.owner, enabled |-> sensorData.enabled,
     lastAlertSent |-> NullTime]

\* an upsert that leaves the owner of an existing document as it is
UpsertKeepingOwner(coll, id, sensorData) ==
    IF \E s \in coll : s.hardwareId = sensorData.hardwareId
    THEN {IF s.hardwareId = sensorData.hardwareId
          THEN [s EXCEPT !.friendlyName = sensorData.friendlyName,
                         !.alertThreshold = sensorData.alertThreshold,
                         !.enabled = sensorData.enabled]
          ELSE s : s \in coll}
    ELSE coll \cup {NewSensor(id, sensorData)}

\* Sensor.findOneAndUpdate({ hardwareId }, sensorData, { upsert, new })
Upsert(coll, id, sensorData) ==
    IF \E s \in coll : s.hardwareId = sensorData.hardwareId
    THEN {IF s.hardwareId = sensorData.hardwareId
          THEN [s EXCEPT !.friendlyName = sensorData.friendlyName,
                         !.alertThreshold = sensorData.alertThreshold,
                         !.owner = sensorData.owner,
                         !.enabled = sensorData.enabled]
          ELSE s : s \in coll}
    ELSE coll \cup {NewSensor(id, sensorData)}

SensorsConfig(user, hardwareId, friendlyName, alertThreshold, dbOk) ==
    /\ served < MaxRequests
    /\ served' = served + 1
    /\ LET sensorData == [hardwareId |-> hardwareId,
                          friendlyName |-> friendlyName,
                          alertThreshold |-> alertThreshold,
                          owner |-> user, enabled |-> TRUE]
           req == <<hardwareId, friendlyName, alertThreshold>>
       IN  IF ~dbOk
           THEN /\ last' = Answer(served + 1, "config", user, req, 500, "Error al guardar",
                                  TRUE)
                /\ UNCHANGED <<sensors, nextId>>
           ELSE /\ sensors' = Upsert(sensors, nextId, sensorData)
                /\ nextId' = IF \E s \in sensors : s.hardwareId = hardwareId
                             THEN nextId ELSE nextId + 1
                /\ last' = Answer(served + 1, "config", user, req, 200,
                                  FindSensor(sensors', hardwareId), FALSE)
    /\ UNCHANGED <<now, ticks, envCooldown, users, measurements, outbox,
                   ingest, del, lastDeviceStatus>>

(***************************************************************************)
(* PUT /api/auth/profile (authenticated as user)                           *)
(***************************************************************************)
\* the stored form of a password
Hash(password) == <<"hash", password>>

\* a comparison that accepts every password
CompareAny(plain, stored) == TRUE

\* bcrypt.compare(plain, stored)
Compare(plain, stored) == stored = Hash(plain)

\* request bodies; "" stands for a field the body does not carry
ProfileBody(whatsapp, oldPassword, newPassword) ==
    [whatsapp |-> whatsapp, oldPassword |-> oldPassword,
     newPassword |-> newPassword]

ProfileBodies ==
    {ProfileBody("w2", "", ""), ProfileBody("", "p1", "p2"),
     ProfileBody("", "p2", "p1"), ProfileBody("", "", "p2"),
     ProfileBody("w1", "p2", "p2")}

AuthProfile(user, whatsapp, oldPassword, newPassword, dbOk) ==
    /\ served < MaxRequests
    /\ served' = served + 1
    /\ LET doc == users[user]
           req == <<whatsapp, oldPassword, newPassword>>
           withPassword == IF newPassword # ""
                           THEN [doc EXCEPT !.password = Hash(newPassword)]
                           ELSE doc
           updated == IF whatsapp # ""
                      THEN [withPassword EXCEPT !.whatsapp = whatsapp]
                      ELSE withPassword
       IN  IF ~dbOk
           THEN /\ last' = Answer(served + 1, "profile", user, req, 500, "Error", TRUE)
                /\ users' = users
           ELSE IF newPassword # "" /\ oldPassword = ""
           THEN \* bcrypt.compare throws on an undefined argument
                /\ last' = Answer(served + 1, "profile", user, req, 500, "Error", FALSE)
                /\ users' = users
           ELSE IF newPassword # "" /\ ~Compare(oldPassword, doc.password)
           THEN /\ last' = Answer(served + 1, "profile", user, req, 401,
                                  "Contrasena incorrecta", FALSE)
                /\ users' = users
           ELSE /\ users' = [users EXCEPT ![user] = updated]
                /\ last' = Answer(served + 1, "profile", user, req, 200,
                                  "Perfil actualizado", FALSE)
    /\ UNCHANGED <<now, ticks, envCooldown, sensors, nextId, measurements,
                   outbox, ingest, del, lastDeviceStatus>>

(***************************************************************************)
(* Queries over the Measurement collection.  Documents are named by their  *)
(* position in insertion order.                                            *)
(***************************************************************************)
MeasurementsOf(coll, sensorId) ==
    {i \in 1..Len(coll) : coll[i].sensorId = sensorId}

\* the positions of S that hold a newest document
Newest(coll, S) ==
    {i \in S : \A j \in S : coll[i].timestamp >= coll[j].timestamp}

RECURSIVE SortedNewestFirst(_, _)
\* .sort({ timestamp: -1 }): newest first, documents of equal timestamp in
\* any order
SortedNewestFirst(coll, S) ==
    IF S = {} THEN {<< >>}
    ELSE UNION {{<<i>> \o o : o \in SortedNewestFirst(coll, S \ {i})} :
                   i \in Newest(coll, S)}

\* a query that ignores its limit
Unlimited(o, n) == o

\* .limit(n); limit(0) is no limit
Limit(o, n) == IF n = 0 \/ Len(o) <= n THEN o ELSE SubSeq(o, 1, n)

Docs(coll, o) == [j \in 1..Len(o) |-> coll[o[j]]]

Reverse(q) == [j \in 1..Len(q) |-> q[Len(q) + 1 - j]]

(***************************************************************************)
(* GET /api/history (authenticated as user); no try/catch                  *)
(***************************************************************************)
ApiHistory(user, sensorId, limit, dbOk) ==
    /\ served < MaxRequests
    /\ served' = served + 1
    /\ LET sensor == FindOwnedSensor(sensors, sensorId, user)
           req == <<sensorId, limit>>
       IN  IF ~dbOk
           THEN last' = Answer(served + 1, "history", user, req, 0, "", TRUE)
           ELSE IF sensor = NoSensor
           THEN last' = Answer(served + 1, "history", user, req, 403, "No autorizado",
                               FALSE)
           ELSE \E o \in SortedNewestFirst(measurements,
                             MeasurementsOf(measurements, sensorId)) :
                    last' = Answer(served + 1, "history", user, req, 200,
                                   Docs(measurements, Limit(o, limit)), FALSE)
    /\ UNCHANGED <<now, ticks, envCooldown, store, outbox, ingest, del,
                   lastDeviceStatus>>

(***************************************************************************)
(* GET /api/device/status (authenticated as user)                          *)
(***************************************************************************)
InitialDeviceStatus ==
    [online |-> FALSE, ip |-> "--", mapping |-> << >>, timestamp |-> NullTime]

\* a status route that marks the device online when it is asked
DeviceStatusMarksOnline(user) ==
    /\ served < MaxRequests
    /\ served' = served + 1
    /\ lastDeviceStatus' = [lastDeviceStatus EXCEPT !.online = TRUE,
                                                    !.timestamp = now]
    /\ last' = Answer(served + 1, "status", user, << >>, 200,
                      lastDeviceStatus', FALSE)
    /\ UNCHANGED <<now, ticks, envCooldown, store, outbox, ingest, del>>

DeviceStatus(user) ==
    /\ served < MaxRequests
    /\ served' = served + 1
    /\ last' = Answer(served + 1, "status", user, << >>, 200, lastDeviceStatus, FALSE)
    /\ UNCHANGED <<now, ticks, envCooldown, store, outbox, ingest, del,
                   lastDeviceStatus>>

(***************************************************************************)
(* authenticateToken: a request of an authenticated route without a valid  *)
(* token never reaches its handler.                                        *)
(***************************************************************************)
Tokens == {"", "forged"}

AuthStatus(token) == IF token = "" THEN 401 ELSE 403

AuthenticateTokenFails(token) ==
    /\ served < MaxRequests
    /\ served' = served + 1
    /\ last' = Answer(served + 1, "auth", "", <<token>>, AuthStatus(token), "", FALSE)
    /\ UNCHANGED <<now, ticks, envCooldown, store, outbox, ingest, del,
                   lastDeviceStatus>>

(***************************************************************************)
(* Texts are sequences of characters.                                      *)
(***************************************************************************)
UpperCase ==
    <<"A", "B", "C", "D", "E", "F", "G", "H", "I", "J", "K", "L", "M", "N",
      "O", "P", "Q", "R", "S", "T", "U", "V", "W", "X", "Y", "Z">>

LowerCase ==
    <<"a", "b", "c", "d", "e", "f", "g", "h", "i", "j", "k", "l", "m", "n",
      "o", "p", "q", "r", "s", "t", "u", "v", "w", "x", "y", "z">>

LowerChar(c) ==
    IF \E i \in 1..26 : UpperCase[i] = c
    THEN LowerCase[CHOOSE i \in 1..26 : UpperCase[i] = c]
    ELSE c

\* String.prototype.toLowerCase
toLowerCase(t) == [i \in 1..Len(t) |-> LowerChar(t[i])]

RECURSIVE trimStart(_)
trimStart(t) ==
    IF t # << >> /\ Head(t) = " " THEN trimStart(Tail(t)) ELSE t

RECURSIVE trimEnd(_)
trimEnd(t) ==
    IF t # << >> /\ t[Len(t)] = " "
    THEN trimEnd(SubSeq(t, 1, Len(t) - 1)) ELSE t

\* String.prototype.trim
trim(t) == trimEnd(trimStart(t))

\* a prefix test that accepts every text
startsWithAny(t, prefix) == TRUE

\* String.prototype.startsWith
startsWith(t, prefix) ==
    Len(t) >= Len(prefix) /\ SubSeq(t, 1, Len(prefix)) = prefix

OccursAt(t, pat, i) ==
    i + Len(pat) - 1 <= Len(t) /\ SubSeq(t, i, i + Len(pat) - 1) = pat

\* String.prototype.replace(pat, ""): the first occurrence is removed
replaceFirst(t, pat) ==
    IF \E i \in 1..Len(t) : OccursAt(t, pat, i)
    THEN LET i == CHOOSE k \in 1..Len(t) :
                      OccursAt(t, pat, k)
                      /\ \A l \in 1..(k - 1) : ~OccursAt(t, pat, l)
         IN  SubSeq(t, 1, i - 1) \o SubSeq(t, i + Len(pat), Len(t))
    ELSE t

Estado == <<"e", "s", "t", "a", "d", "o">>

Historial == <<"h", "i", "s", "t", "o", "r", "i", "a", "l">>

\* new RegExp(pattern, "i") throws on a pattern that is no regular
\* expression; of the characters the texts are made of (letters, space and
\* the opening parenthesis) only the parenthesis makes one
RegExpThrows(pattern) == \E i \in 1..Len(pattern) : pattern[i] = "("

\* a pattern of letters and spaces matches case-insensitively anywhere
RegExpTest(pattern, t) ==
    \E i \in 1..(Len(t) + 1) :
        /\ i + Len(pattern) - 1 <= Len(t)
        /\ \A j \in 1..Len(pattern) :
               LowerChar(t[i + j - 1]) = LowerChar(pattern[j])

(***************************************************************************)
(* POST /api/webhook/whatsapp                                              *)
(***************************************************************************)
\* the request body: whether body.data, data.message and data.key are
\* there, the two places of the text (<< >> when absent) and remoteJid as
\* its parts between "@"
Envelope(data, message, conversation, extendedText, key, remoteJid) ==
    [data |-> data, message |-> message, conversation |-> conversation,
     extendedText |-> extendedText, key |-> key, remoteJid |-> remoteJid]

Jid(contact) == <<contact, "s.whatsapp.net">>

Texts ==
    {<<" ", "E", "s", "t", "a", "d", "o">>,
     <<"h", "i", "s", "t", "o", "r", "i", "a", "l", " ", "b">>,
     <<"H", "i", "s", "t", "o", "r", "i", "a", "l", " ", "z">>,
     <<"h", "i", "s", "t", "o", "r", "i", "a", "l", " ", "(">>,
     <<"h", "o", "l", "a">>}

Envelopes ==
    {Envelope(FALSE, FALSE, << >>, << >>, FALSE, << >>),
     Envelope(TRUE, FALSE, << >>, << >>, TRUE, Jid("w1")),
     Envelope(TRUE, TRUE, <<"h", "o", "l", "a">>, << >>, FALSE, << >>),
     Envelope(TRUE, TRUE, << >>, Estado, TRUE, Jid("w1")),
     Envelope(TRUE, TRUE, Estado, << >>, TRUE, Jid("w9"))}
    \cup {Envelope(TRUE, TRUE, t, << >>, TRUE, Jid("w1")) : t \in Texts}

\* (conversation || extendedTextMessage?.text || "").toLowerCase().trim()
CommandText(e) ==
    trim(toLowerCase(IF e.conversation # << >> THEN e.conversation
                     ELSE e.extendedText))

\* remoteJid.split("@")[0]
From(e) == Head(e.remoteJid)

UserOrder == <<"u1", "u2">>

\* User.findOne({ whatsapp }): the first document in collection order
FindUserByWhatsapp(coll, whatsapp) ==
    IF \E i \in 1..Len(UserOrder) : coll[UserOrder[i]].whatsapp = whatsapp
    THEN UserOrder[CHOOSE i \in 1..Len(UserOrder) :
             /\ coll[UserOrder[i]].whatsapp = whatsapp
             /\ \A j \in 1..(i - 1) : coll[UserOrder[j]].whatsapp # whatsapp]
    ELSE ""

RECURSIVE ById(_)
\* the documents of a query result in collection order (ascending _id)
ById(S) ==
    IF S = {} THEN << >>
    ELSE LET first == CHOOSE s \in S : \A r \in S : s.id <= r.id
         IN  <<first>> \o ById(S \ {first})

\* Measurement.findOne({ sensorId }).sort({ timestamp: -1 }): the positions
\* it may return, {0} when the sensor has no measurement
LatestOf(coll, sensorId) ==
    LET S == MeasurementsOf(coll, sensorId)
    IN  IF S = {} THEN {0}
        ELSE {i \in S : \A j \in S : coll[i].timestamp >= coll[j].timestamp}

\* a report line that shows the alert glyph at the threshold too
ReportLineInclusive(s, coll, lastM) ==
    [icon |-> IF lastM # 0 /\ coll[lastM].temperatureC >= s.alertThreshold
              THEN "red" ELSE "green",
     friendlyName |-> s.friendlyName,
     temp |-> IF lastM # 0 THEN <<coll[lastM].temperatureC, "C">>
              ELSE <<"N/A">>]

\* one line of the report, lastM = 0 for no measurement
ReportLine(s, coll, lastM) ==
    [icon |-> IF lastM # 0 /\ coll[lastM].temperatureC > s.alertThreshold
              THEN "red" ELSE "green",
     friendlyName |-> s.friendlyName,
     temp |-> IF lastM # 0 THEN <<coll[lastM].temperatureC, "C">>
              ELSE <<"N/A">>]

reporte(found, coll, pick) ==
    <<"REPORTE", [i \in 1..Len(found) |->
                     ReportLine(found[i], coll, pick[found[i].hardwareId])]>>

\* new Date(m.timestamp).toLocaleTimeString(): the second of the day
MsPerDay == 86400000

toLocaleTimeString(timestamp) == (timestamp % MsPerDay) \div 1000

\* the chart of the documents docs (newest first)
Chart(docs) ==
    [labels |-> Reverse([j \in 1..Len(docs) |->
                            toLocaleTimeString(docs[j].timestamp)]),
     data |-> Reverse([j \in 1..Len(docs) |-> docs[j].temperatureC])]

WebhookAnswer(e, status, rejected) ==
    Answer(served + 1, "webhook", "", <<e>>, status, "", rejected)

\* the "estado" branch
WebhookEstado(e, user, sendOk) ==
    LET found == ById({s \in sensors : s.owner = user /\ s.enabled})
    IN  \E pick \in [HardwareIds -> 0..Len(measurements)] :
            /\ \A h \in HardwareIds :
                   pick[h] \in IF \E i \in 1..Len(found) :
                                      found[i].hardwareId = h
                               THEN LatestOf(measurements, h) ELSE {0}
            /\ outbox' = Append(outbox,
                   Message(From(e), reporte(found, measurements, pick),
                           sendOk, served + 1))

\* the "historial" branch, for a pattern that compiles
WebhookHistorial(e, user, busqueda, sendOk) ==
    LET matching == {s \in sensors :
                        /\ s.owner = user
                        /\ RegExpTest(busqueda, s.friendlyName)}
    IN  IF matching = {}
        THEN outbox' = Append(outbox,
                 Message(From(e), <<"NOTFOUND", busqueda>>, sendOk,
                         served + 1))
        ELSE LET sensor == ById(matching)[1]
                 S == MeasurementsOf(measurements, sensor.hardwareId)
             IN  IF S = {}
                 THEN outbox' = outbox /\ sendOk
                 ELSE \E o \in SortedNewestFirst(measurements, S) :
                          outbox' = Append(outbox,
                              Message(From(e),
                                  <<"IMAGE",
                                    Chart(Docs(measurements,
                                               Limit(o, ChartLimit))),
                                    sensor.friendlyName>>,
                                  sendOk, served + 1))

WebhookWhatsapp(e, dbOk, sendOk) ==
    /\ served < MaxRequests
    /\ served' = served + 1
    /\ IF ~e.data
       THEN last' = WebhookAnswer(e, 500, FALSE) /\ outbox' = outbox
       ELSE IF ~e.message
       THEN last' = WebhookAnswer(e, 200, FALSE) /\ outbox' = outbox
       ELSE IF ~e.key
       THEN last' = WebhookAnswer(e, 500, FALSE) /\ outbox' = outbox
       ELSE IF ~dbOk
       THEN last' = WebhookAnswer(e, 500, TRUE) /\ outbox' = outbox
       ELSE LET text == CommandText(e)
                user == FindUserByWhatsapp(users, From(e))
                busqueda == trim(replaceFirst(text, Historial))
            IN  IF user = ""
                THEN last' = WebhookAnswer(e, 200, FALSE) /\ outbox' = outbox
                ELSE IF text = Estado
                THEN /\ WebhookEstado(e, user, sendOk)
                     /\ last' = WebhookAnswer(e, 200, FALSE)
                ELSE IF ~startsWith(text, Historial)
                THEN last' = WebhookAnswer(e, 200, FALSE) /\ outbox' = outbox
                ELSE IF RegExpThrows(busqueda)
                THEN last' = WebhookAnswer(e, 500, FALSE) /\ outbox' = outbox
                ELSE /\ WebhookHistorial(e, user, busqueda, sendOk)
                     /\ last' = WebhookAnswer(e, 200, FALSE)
    /\ UNCHANGED <<now, ticks, envCooldown, store, ingest, del,
                   lastDeviceStatus>>

(***************************************************************************)
(* The system.                                                             *)
(***************************************************************************)
\* the collections the process may find when it starts: sensor H1 of user
\* u1, never alerted and without measurements, or alerted at the instant of
\* the last of its eleven measurements, taken one second apart (instants
\* before the process started are negative) and next to a disabled sensor
\* H2 of the same user
InitialSensor(lastAlertSent) ==
    [id |-> 1, hardwareId |-> "H1", friendlyName |-> <<"A", "b">>,
     alertThreshold |-> 5, owner |-> "u1", enabled |-> TRUE,
     lastAlertSent |-> lastAlertSent]

DisabledSensor ==
    [id |-> 2, hardwareId |-> "H2", friendlyName |-> <<"b">>,
     alertThreshold |-> 5, owner |-> "u1", enabled |-> FALSE,
     lastAlertSent |-> NullTime]

InitialStores ==
    {[sensors |-> {InitialSensor(NullTime)}, nextId |-> 2,
      measurements |-> << >>],
     [sensors |-> {InitialSensor(0), DisabledSensor}, nextId |-> 3,
      measurements |->
          [i \in 1..(ChartLimit + 1) |->
              NewMeasurement("H1", IF i % 2 = 1 THEN 6 ELSE 5, 3,
                             (i - ChartLimit - 1) * 1000)]]}

Init ==
    /\ now = 0
    /\ ticks = 0
    /\ served = 0
    /\ envCooldown \in CooldownEnvs
    /\ users = [u \in Users |->
                   IF u = "u1" THEN [password |-> Hash("p1"), whatsapp |-> "w1"]
                   ELSE [password |-> Hash("p2"), whatsapp |-> ""]]
    /\ \E db \in InitialStores :
           /\ sensors = db.sensors
           /\ measurements = db.measurements
           /\ nextId = db.nextId
    /\ outbox = << >>
    /\ ingest = [p \in IngestProcs |-> IdleIngest]
    /\ del = [d \in DeleteProcs |-> IdleDelete]
    /\ last = NoAnswer
    /\ lastDeviceStatus = InitialDeviceStatus

Next ==
    \/ \E d \in TimeSteps : Tick(d)
    \/ \E p \in IngestProcs, h \in HardwareIds, t \in Temps, v \in Volts,
          dbOk \in BOOLEAN : IngestFind(p, h, t, v, dbOk)
    \/ \E p \in IngestProcs, dbOk \in BOOLEAN, sendOk \in BOOLEAN :
          IngestSave(p, dbOk, sendOk)
    \/ \E p \in IngestProcs, dbOk \in BOOLEAN, missingThrows \in BOOLEAN :
          IngestSaveSensor(p, dbOk, missingThrows)
    \/ \E d \in DeleteProcs, u \in Users, h \in HardwareIds, dbOk \in BOOLEAN :
          DeleteSensor(d, u, h, dbOk)
    \/ \E d \in DeleteProcs, dbOk \in BOOLEAN : DeleteMeasurements(d, dbOk)
    \/ \E u \in Users, h \in HardwareIds, n \in FriendlyNames,
          a \in Thresholds, dbOk \in BOOLEAN : SensorsConfig(u, h, n, a, dbOk)
    \/ \E u \in Users, b \in ProfileBodies, dbOk \in BOOLEAN :
          AuthProfile(u, b.whatsapp, b.oldPassword, b.newPassword, dbOk)
    \/ \E u \in Users, h \in HardwareIds, l \in {DefaultHistoryLimit, 1},
          dbOk \in BOOLEAN : ApiHistory(u, h, l, dbOk)
    \/ \E u \in Users : DeviceStatus(u)
    \/ \E token \in Tokens : AuthenticateTokenFails(token)
    \/ \E e \in Envelopes, dbOk \in BOOLEAN, sendOk \in BOOLEAN :
          WebhookWhatsapp(e, dbOk, sendOk)

Spec == Init /\ [][Next]_vars

\* a call of a split handler is between two of its steps
InFlight ==
    \/ \E p \in IngestProcs : ingest[p].pc \in {"save", "saveSensor"}
    \/ \E d \in DeleteProcs : del[d].pc = "deleteMany"

\* the executions in which no two requests overlap: a request arrives only
\* when no call is in flight
NextSerial ==
    \/ \E d \in TimeSteps : Tick(d)
    \/ ~InFlight /\
          \E p \in IngestProcs, h \in HardwareIds, t \in Temps, v \in Volts,
             dbOk \in BOOLEAN : IngestFind(p, h, t, v, dbOk)
    \/ \E p \in IngestProcs, dbOk \in BOOLEAN, sendOk \in BOOLEAN :
          IngestSave(p, dbOk, sendOk)
    \/ \E p \in IngestProcs, dbOk \in BOOLEAN, missingThrows \in BOOLEAN :
          IngestSaveSensor(p, dbOk, missingThrows)
    \/ ~InFlight /\
          \E d \in DeleteProcs, u \in Users, h \in HardwareIds,
             dbOk \in BOOLEAN : DeleteSensor(d, u, h, dbOk)
    \/ \E d \in DeleteProcs, dbOk \in BOOLEAN : DeleteMeasurements(d, dbOk)
    \/ ~InFlight /\
          \E u \in Users, h \in HardwareIds, n \in FriendlyNames,
             a \in Thresholds, dbOk \in BOOLEAN :
              SensorsConfig(u, h, n, a, dbOk)
    \/ ~InFlight /\
          \E u \in Users, b \in ProfileBodies, dbOk \in BOOLEAN :
              AuthProfile(u, b.whatsapp, b.oldPassword, b.newPassword, dbOk)
    \/ ~InFlight /\
          \E u \in Users, h \in HardwareIds, l \in {DefaultHistoryLimit, 1},
             dbOk \in BOOLEAN : ApiHistory(u, h, l, dbOk)
    \/ ~InFlight /\ \E u \in Users : DeviceStatus(u)
    \/ ~InFlight /\ \E token \in Tokens : AuthenticateTokenFails(token)
    \/ ~InFlight /\
          \E e \in Envelopes, dbOk \in BOOLEAN, sendOk \in BOOLEAN :
              WebhookWhatsapp(e, dbOk, sendOk)

SerialSpec == Init /\ [][NextSerial]_vars

(***************************************************************************)
(* Properties.                                                             *)
(***************************************************************************)
\* the messages request n posted
Dispatched(n) == {i \in 1..Len(outbox) : outbox[i].n = n}

\* the messages request n has posted after the step
DispatchedNext(n) == {i \in 1..Len(outbox') : outbox'[i].n = n}

\* the cooldown window in force
Window == cooldownMs(envCooldown)

\* the calls the slots hold
Calls == {ingest[p] : p \in IngestProcs}

\* C1: a POST /api/data call on a known sensor whose Measurement write
\* succeeded has posted an alert if and only if tempC > alertThreshold, the
\* owner has a contact, and lastAlertSent was null or the instant taken
\* minus lastAlertSent is greater than the window; both comparisons strict.
C1_AlertIffAboveAndExpired ==
    \A c \in Calls :
        c.saved =>
            (Dispatched(c.n) # {} <=>
                /\ c.tempC > c.sensor.alertThreshold
                /\ c.owner.whatsapp # ""
                /\ \/ c.read = NullTime
                   \/ ~Window.nan /\ c.ahora - c.read > Window.val)

\* a call stored its measurement and posted an alert for a sensor that had
\* been alerted before
C1_Witness ==
    \E c \in Calls :
        c.saved /\ Dispatched(c.n) # {} /\ c.read # NullTime

AlertDue(c) ==
    /\ c.sensor # NoSensor
    /\ c.tempC > c.sensor.alertThreshold
    /\ c.owner.whatsapp # ""
    /\ \/ c.read = NullTime
       \/ c.ahora # NullTime /\ Gt(Num(c.ahora - c.read), Window)

\* the call in slot p is answered in this step
Completes(p) == ingest'[p].pc = "done" /\ ingest'[p] # ingest[p]

C4_LastAlertSentNeverDecreases ==
    [][\A s \in sensors : \A t \in sensors' :
          s.id = t.id /\ s.lastAlertSent # NullTime
          => t.lastAlertSent >= s.lastAlertSent]_vars

\* a call arrives in this step and its lookup is answered with no document
ArrivesUnknown(p) ==
    /\ ingest'[p].n = served + 1
    /\ served' = served + 1
    /\ ~ingest'[p].rejected
    /\ ~\E s \in sensors : s.hardwareId = ingest'[p].sensorId

\* C5: a POST /api/data call whose sensorId matches no Sensor document is
\* answered 404 "Sensor no configurado" at once, and writes no Measurement,
\* posts no message and changes no Sensor.
C5_UnknownSensorDiscarded ==
    [][\A p \in IngestProcs :
          ArrivesUnknown(p) =>
              /\ ingest'[p].pc = "done"
              /\ ingest'[p].status = 404
              /\ ingest'[p].body = "Sensor no configurado"
              /\ measurements' = measurements
              /\ sensors' = sensors
              /\ outbox' = outbox]_vars

\* a call for an unknown sensor has been answered
C5_Witness ==
    \E c \in Calls :
        /\ c.pc = "done" /\ c.status = 404
        /\ ~\E s \in sensors : s.hardwareId = c.sensorId

\* the DELETE call in slot d is answered in this step
DeleteCompletes(d) == del[d].pc = "deleteMany" /\ del'[d].pc = "done"

\* the request answered in this step is the one that arrives in it, on route
Answers(route) ==
    /\ last'.route = route
    /\ last'.n = served + 1
    /\ served' = served + 1

\* the request answered last is a DELETE of the sensor by its owner (the
\* deleteOne removed a document) and no request has arrived since
OwnerJustDeleted(user, sensorId) ==
    /\ last.route = "delete" /\ last.n = served
    /\ \E d \in DeleteProcs :
           /\ del[d].n = last.n /\ del[d].pc = "done" /\ del[d].removed = 1
           /\ del[d].user = user /\ del[d].sensorId = sensorId

\* C6: when a DELETE /api/sensors/:hardwareId by the sensor's owner is
\* answered, no Sensor with that hardwareId and no Measurement with that
\* sensorId is stored, and the answer to a GET /api/history for that
\* hardwareId by the former owner that follows it is 403 "No autorizado",
\* without measurements.
C6_DeleteRemovesSensorAndHistory ==
    [][/\ \A d \in DeleteProcs :
             DeleteCompletes(d) /\ del[d].removed = 1 =>
                 /\ ~\E s \in sensors' : s.hardwareId = del[d].sensorId
                 /\ ~\E i \in 1..Len(measurements') :
                        measurements'[i].sensorId = del[d].sensorId
       /\ (/\ Answers("history") /\ ~last'.rejected
           /\ OwnerJustDeleted(last'.user, last'.req[1]))
          => last'.status = 403 /\ last'.body = "No autorizado"]_vars

\* the owner deleted a sensor, and the GET /api/history that followed was
\* answered 403
C6_Witness ==
    /\ last.route = "history" /\ last.n = served /\ last.status = 403
    /\ \E d \in DeleteProcs :
           /\ del[d].n = last.n - 1 /\ del[d].pc = "done" /\ del[d].removed = 1
           /\ del[d].user = last.user /\ del[d].sensorId = last.req[1]
    /\ ~\E s \in sensors : s.hardwareId = last.req[1]

\* C7: a DELETE /api/sensors/:hardwareId that removes no Sensor document
\* leaves the Measurement collection as it is.
C7_ForeignDeleteKeepsMeasurements ==
    [][\A d \in DeleteProcs :
          DeleteCompletes(d) /\ del[d].removed = 0
          => measurements' = measurements]_vars

\* C8: a PUT /api/auth/profile that carries newPassword and an oldPassword
\* other than the stored one leaves the stored password as it is, and is
\* answered 401 once the user document has been read.
C8_WrongOldPasswordRefused ==
    [][(/\ Answers("profile")
        /\ last'.req[3] # "" /\ last'.req[2] # ""
        /\ users[last'.user].password # Hash(last'.req[2]))
       => /\ users'[last'.user].password = users[last'.user].password
          /\ ~last'.rejected => last'.status = 401]_vars

\* such a request has been answered 401
C8_Witness ==
    /\ last.route = "profile" /\ last.status = 401
    /\ last.req[3] # "" /\ last.req[2] # ""
    /\ users[last.user].password # Hash(last.req[2])
    /\ users[last.user].password # Hash(last.req[3])

\* C9: every POST /api/webhook/whatsapp is answered 200.
C9_WebhookAlwaysAcknowledges ==
    last.route = "webhook" => last.status = 200

\* the post of the alert of the call in slot p fails in this step
AlertPostFails(p) ==
    /\ ingest[p].pc = "save"
    /\ Len(outbox') = Len(outbox) + 1
    /\ outbox'[Len(outbox')].n = ingest[p].n
    /\ ~outbox'[Len(outbox')].ok

\* the one message request n posted was refused by the chat platform
PostFailed(n) ==
    /\ Cardinality(Dispatched(n)) = 1
    /\ \A i \in Dispatched(n) : ~outbox[i].ok

HistorialCall(e) ==
    /\ e.data /\ e.message /\ e.key
    /\ FindUserByWhatsapp(users, From(e)) # ""
    /\ startsWith(CommandText(e), Historial)
    /\ ~RegExpThrows(trim(replaceFirst(CommandText(e), Historial)))

\* the positions of S that hold an oldest document
Oldest(coll, S) ==
    {i \in S : \A j \in S : coll[i].timestamp <= coll[j].timestamp}

RECURSIVE OldestFirst(_, _)
\* the arrangements of the positions S in chronological ascending order
OldestFirst(coll, S) ==
    IF S = {} THEN {<< >>}
    ELSE UNION {{<<i>> \o o : o \in OldestFirst(coll, S \ {i})} :
                   i \in Oldest(coll, S)}

\* the last k entries of q, all of them when it has no more than k
LastOf(q, k) == IF Len(q) <= k THEN q ELSE SubSeq(q, Len(q) - k + 1, Len(q))

\* the charts of the (at most) ten most recent measurements of sensor s,
\* oldest first
RecentCharts(s) ==
    {[labels |-> [j \in 1..Len(q) |->
                     toLocaleTimeString(measurements[q[j]].timestamp)],
      data |-> [j \in 1..Len(q) |-> measurements[q[j]].temperatureC]] :
        q \in {LastOf(o, 10) :
                  o \in OldestFirst(measurements,
                           MeasurementsOf(measurements, s.hardwareId))}}

\* the sensors of the sender of e that the query of e matches
Matching(e) ==
    {s \in sensors :
        /\ s.owner = FindUserByWhatsapp(users, From(e))
        /\ RegExpTest(trim(replaceFirst(CommandText(e), Historial)),
                      s.friendlyName)}

\* message m is the chart of sensor s
IsChartOf(m, s) ==
    /\ m.content[1] = "IMAGE"
    /\ m.content[2] \in RecentCharts(s)
    /\ Len(m.content[2].labels) <= 10
    /\ m.content[3] = s.friendlyName

\* C11: a "historial <query>" webhook call whose store reads are answered
\* posts exactly one not-found text echoing the query when no sensor of the
\* sender matches; nothing when the matched sensor has no measurement; and
\* exactly one image when it has, whose chart holds at most the 10 most
\* recent measurements, labels and values oldest first.
C11_HistorialReplies ==
    [][\A e \in Envelopes :
          (/\ Answers("webhook") /\ last'.req = <<e>> /\ ~last'.rejected
           /\ HistorialCall(e))
          => LET posted == DispatchedNext(served + 1)
                 with == {s \in Matching(e) :
                             MeasurementsOf(measurements, s.hardwareId) # {}}
             IN  /\ Len(outbox') = Len(outbox) + Cardinality(posted)
                 /\ Matching(e) = {} =>
                        /\ Cardinality(posted) = 1
                        /\ \A i \in posted :
                               /\ outbox'[i].number = From(e)
                               /\ outbox'[i].content =
                                      <<"NOTFOUND",
                                        trim(replaceFirst(CommandText(e),
                                                          Historial))>>
                 /\ (Matching(e) # {} /\ with = {}) => posted = {}
                 /\ (Matching(e) # {} /\ with = Matching(e)) =>
                        Cardinality(posted) = 1
                 /\ Matching(e) # {} =>
                        /\ Cardinality(posted) <= 1
                        /\ \A i \in posted :
                               /\ outbox'[i].number = From(e)
                               /\ \E s \in with : IsChartOf(outbox'[i], s)]_vars

\* a "historial" call has posted the chart of a sensor that has more than
\* ten measurements
C11_Witness ==
    /\ last.route = "webhook" /\ last.status = 200
    /\ HistorialCall(last.req[1])
    /\ \E i \in Dispatched(last.n) : \E s \in sensors :
           /\ IsChartOf(outbox[i], s)
           /\ Cardinality(MeasurementsOf(measurements, s.hardwareId)) > 10
           /\ Len(outbox[i].content[2].labels) = 10

\* the webhook request e reaches the "estado" branch
EstadoCall(e) ==
    /\ e.data /\ e.message /\ e.key
    /\ FindUserByWhatsapp(users, From(e)) # ""
    /\ CommandText(e) = Estado

\* the enabled sensors of the sender of e
EnabledOf(e) ==
    {s \in sensors :
        s.owner = FindUserByWhatsapp(users, From(e)) /\ s.enabled}

\* line is the report line of sensor s: its name, the temperature of a most
\* recent measurement with the alert glyph iff that is above the threshold,
\* or N/A with the normal glyph when there is no measurement
IsLineOf(line, s) ==
    /\ line.friendlyName = s.friendlyName
    /\ LET S == MeasurementsOf(measurements, s.hardwareId)
       IN  IF S = {}
           THEN line.temp = <<"N/A">> /\ line.icon = "green"
           ELSE \E i \in S :
                    /\ \A j \in S : measurements[j].timestamp
                                        <= measurements[i].timestamp
                    /\ line.temp = <<measurements[i].temperatureC, "C">>
                    /\ line.icon = "red" <=>
                           measurements[i].temperatureC > s.alertThreshold
                    /\ line.icon \in {"red", "green"}

\* C12: an "estado" webhook call whose store reads are answered posts
\* exactly one reply, with one line for each enabled sensor of the sender
\* and no other line; a line carries the alert glyph iff the sensor's most
\* recent measurement is strictly above its threshold, and shows that
\* temperature, or N/A iff the sensor has no measurement.
C12_EstadoReport ==
    [][\A e \in Envelopes :
          (/\ Answers("webhook") /\ last'.req = <<e>> /\ ~last'.rejected
           /\ EstadoCall(e))
          => /\ Len(outbox') = Len(outbox) + 1
             /\ DispatchedNext(served + 1) = {Len(outbox')}
             /\ LET m == outbox'[Len(outbox')]
                    lines == m.content[2]
                IN  /\ m.number = From(e)
                    /\ m.content[1] = "REPORTE"
                    /\ Len(lines) = Cardinality(EnabledOf(e))
                    /\ \E f \in [1..Len(lines) -> EnabledOf(e)] :
                           /\ \A i, j \in 1..Len(lines) :
                                  f[i] = f[j] => i = j
                           /\ \A i \in 1..Len(lines) : IsLineOf(lines[i], f[i])
                    /\ \A i \in 1..Len(lines) :
                           lines[i].temp = <<"N/A">> <=>
                               \E s \in EnabledOf(e) :
                                   /\ IsLineOf(lines[i], s)
                                   /\ MeasurementsOf(measurements,
                                                     s.hardwareId) = {}]_vars

\* an "estado" call has posted a report with a line that carries the normal
\* glyph for a most recent measurement at the threshold, and without a line
\* for a disabled sensor of the sender
C12_Witness ==
    /\ last.route = "webhook" /\ last.status = 200
    /\ EstadoCall(last.req[1])
    /\ \E i \in Dispatched(last.n) :
           LET lines == outbox[i].content[2]
           IN  \E j \in 1..Len(lines) :
                   /\ lines[j].icon = "green"
                   /\ lines[j].temp = <<5, "C">>
                   /\ \E s \in EnabledOf(last.req[1]) :
                          s.alertThreshold = 5 /\ IsLineOf(lines[j], s)
               /\ \E s \in sensors :
                      /\ s.owner = FindUserByWhatsapp(users,
                                                      From(last.req[1]))
                      /\ ~s.enabled
                      /\ \A k \in 1..Len(lines) :
                             lines[k].friendlyName # s.friendlyName

\* the sender of e is the contact of no user
UnknownSender(e) ==
    /\ e.data /\ e.message /\ e.key
    /\ \A u \in Users : users[u].whatsapp # From(e)

\* the normalized text of e is neither "estado" nor begins with "historial"
NoCommand(e) ==
    /\ e.data /\ e.message
    /\ CommandText(e) # <<"e", "s", "t", "a", "d", "o">>
    /\ \/ Len(CommandText(e)) < 9
       \/ SubSeq(CommandText(e), 1, 9)
              # <<"h", "i", "s", "t", "o", "r", "i", "a", "l">>

\* C13: a webhook call from a contact of no user, or with a normalized text
\* that is neither exactly "estado" nor begins with "historial", posts no
\* message and changes no stored record.
C13_NoReplyToStrangersOrNoise ==
    [][\A e \in Envelopes :
          (/\ Answers("webhook") /\ last'.req = <<e>>
           /\ UnknownSender(e) \/ NoCommand(e))
          => /\ outbox' = outbox
             /\ users' = users
             /\ sensors' = sensors
             /\ measurements' = measurements]_vars

\* a webhook call of a known user with a text that is no command has been
\* acknowledged without a message
C13_Witness ==
    /\ last.route = "webhook" /\ last.status = 200
    /\ NoCommand(last.req[1])
    /\ last.req[1].key /\ ~UnknownSender(last.req[1])
    /\ Dispatched(last.n) = {}

\* C14: every Measurement is written for a Sensor that exists at the moment
\* of the write.
C14_MeasurementWrittenForExistingSensor ==
    [][Len(measurements') > Len(measurements) =>
          \E s \in sensors :
              s.hardwareId = measurements'[Len(measurements')].sensorId]_vars

\* calls c and e are two calls for one sensor document that read the same
\* stored lastAlertSent: neither read what the other persisted
ReadTogether(c, e) ==
    /\ c.n # e.n
    /\ c.sensor # NoSensor /\ c.sensor.id = e.sensor.id
    /\ c.read = e.read

\* C15: of two overlapping POST /api/data calls for one sensor that both
\* read it before either persisted lastAlertSent, each one whose reading is
\* above the threshold with the owner's contact set and the cooldown expired
\* on the copy it read posts a notification once its Measurement is written:
\* the first call's notification does not hold back the second.
C15_BothOverlappingCallsNotify ==
    \A c \in Calls, e \in Calls :
        (/\ ReadTogether(c, e)
         /\ c.saved /\ e.saved
         /\ AlertDue(c) /\ AlertDue(e))
        => Dispatched(c.n) # {} /\ Dispatched(e.n) # {}

\* two such calls have both posted a notification and both been answered OK
\* after saving, at instants no more than the cooldown window apart
C15_Witness ==
    \E c \in Calls, e \in Calls :
        /\ ReadTogether(c, e) /\ c.n < e.n
        /\ c.read # NullTime
        /\ Dispatched(c.n) # {} /\ Dispatched(e.n) # {}
        /\ c.pc = "done" /\ ~c.rejected /\ e.pc = "done" /\ ~e.rejected
        /\ ~Window.nan
        /\ e.ahora - c.ahora <= Window.val
        /\ c.ahora - e.ahora <= Window.val

\* a Sensor document without its lastAlertSent
Administered(s) == [s EXCEPT !.lastAlertSent = NullTime]

\* the call in slot p takes a step
IngestStep(p) == ingest'[p] # ingest[p]

\* C16: a step of a POST /api/data call leaves hardwareId, friendlyName,
\* alertThreshold, owner and enabled of every stored Sensor as they are,
\* also when a POST /api/sensors/config changed them since the call read the
\* sensor, and leaves lastAlertSent as it is too when the call has posted no
\* notification.
C16_IngestWritesOnlyLastAlertSent ==
    [][\A p \in IngestProcs :
          IngestStep(p) =>
              /\ {Administered(s) : s \in sensors'}
                     = {Administered(s) : s \in sensors}
              /\ Cardinality(sensors') = Cardinality(sensors)
              /\ DispatchedNext(ingest'[p].n) = {} => sensors' = sensors]_vars

\* a call has saved lastAlertSent on a sensor whose friendlyName or owner a
\* config call changed after the call read it
C16_Witness ==
    \E c \in Calls :
        /\ c.pc = "done" /\ c.status = 200 /\ Dispatched(c.n) # {}
        /\ \E s \in sensors :
               /\ s.id = c.sensor.id
               /\ s.lastAlertSent = c.ahora
               /\ s.friendlyName # c.sensor.friendlyName
                  \/ s.owner # c.sensor.owner

\* C17: with a cooldown configuration that is no number, a call on a sensor
\* alerted more than the default 30 minutes before, with the reading above
\* the threshold and the owner's contact set, posts a notification once its
\* Measurement is written, as it does with the default window.
C17_NonNumericCooldownIsDefault ==
    (envCooldown # << >> /\ \E i \in 1..Len(envCooldown) :
                                envCooldown[i] \notin Digits)
    => \A c \in Calls :
           (/\ c.saved
            /\ c.tempC > c.sensor.alertThreshold
            /\ c.owner.whatsapp # ""
            /\ c.read # NullTime
            /\ c.ahora - c.read > 30 * 60000)
           => Dispatched(c.n) # {}

\* the Measurement write of the call in slot p is rejected in this step
MeasurementWriteFails(p) ==
    ingest[p].pc = "save" /\ ingest'[p].rejected

\* C18: when the Measurement write of a POST /api/data call on a known
\* sensor is rejected, the call is answered 500 "Error", posts no
\* notification and leaves every stored Sensor (its lastAlertSent too) and
\* the Measurement collection as they are, whatever the reading.
C18_FailedWriteSkipsAlert ==
    [][\A p \in IngestProcs :
          MeasurementWriteFails(p) =>
              /\ ingest'[p].pc = "done"
              /\ ingest'[p].status = 500 /\ ingest'[p].body = "Error"
              /\ last' = Answered(last, "data", "", ingest'[p])
              /\ DispatchedNext(ingest[p].n) = {}
              /\ outbox' = outbox
              /\ sensors' = sensors
              /\ measurements' = measurements]_vars

\* a call with the reading above the threshold, the owner's contact set and
\* no alert sent before was answered 500 after its Measurement write was
\* rejected, without a notification
C18_Witness ==
    \E c \in Calls :
        /\ c.pc = "done" /\ c.status = 500 /\ c.rejected /\ ~c.saved
        /\ c.sensor # NoSensor
        /\ c.tempC > c.sensor.alertThreshold /\ c.owner.whatsapp # ""
        /\ c.read = NullTime
        /\ Dispatched(c.n) = {}

\* the Sensor documents with hardwareId h in collection coll
SensorsOf(coll, h) == {s \in coll : s.hardwareId = h}

\* body holds the measurements stored under h, newest first, cut at limit
IsHistoryOf(body, h, limit) ==
    LET S == MeasurementsOf(measurements, h)
    IN  /\ Len(body) = IF Cardinality(S) <= limit THEN Cardinality(S)
                       ELSE limit
        /\ \A j \in 1..Len(body) :
               /\ \E i \in S : body[j] = measurements[i]
               /\ \A i \in S :
                      (\A k \in 1..Len(body) : body[k] # measurements[i])
                      => measurements[i].timestamp <= body[j].timestamp
        /\ \A j \in 1..(Len(body) - 1) :
               body[j].timestamp >= body[j + 1].timestamp

\* C19: a POST /api/sensors/config for hardwareId h by user u that is
\* answered 200 leaves exactly one Sensor with hardwareId h, owned by u and
\* enabled, whoever owned h before, and keeps the Measurements; a GET
\* /api/history for h by the user who owns h is answered with the
\* measurements stored under h.
C19_ConfigTakesSensorAndHistory ==
    [][/\ (Answers("config") /\ last'.status = 200) =>
              /\ Cardinality(SensorsOf(sensors', last'.req[1])) = 1
              /\ \A s \in SensorsOf(sensors', last'.req[1]) :
                     s.owner = last'.user /\ s.enabled
              /\ measurements' = measurements
       /\ (/\ Answers("history") /\ ~last'.rejected
           /\ \E s \in SensorsOf(sensors, last'.req[1]) :
                  s.owner = last'.user)
          => /\ last'.status = 200
             /\ IsHistoryOf(last'.body, last'.req[1], last'.req[2])]_vars

\* a user took over, by a config call, a sensor that another user owned and
\* that had measurements, and the GET /api/history that followed returned
\* them to the new owner
C19_Witness ==
    /\ last.route = "history" /\ last.n = served /\ last.status = 200
    /\ last.user = "u2" /\ last.req[1] = "H1"
    /\ Len(last.body) > 1
    /\ \E s \in SensorsOf(sensors, "H1") : s.owner = "u2" /\ s.id = 1

\* C20: no handler writes the heartbeat snapshot: lastDeviceStatus is always
\* its initial value (online false, ip "--", empty mapping, null timestamp),
\* and that is what GET /api/device/status returns.
C20_HeartbeatNeverWritten ==
    /\ lastDeviceStatus =
           [online |-> FALSE, ip |-> "--", mapping |-> << >>,
            timestamp |-> NullTime]
    /\ last.route = "status" =>
           /\ last.status = 200
           /\ last.body = [online |-> FALSE, ip |-> "--", mapping |-> << >>,
                           timestamp |-> NullTime]

\* GET /api/device/status has been answered after another request and a
\* clock advance
C20_Witness ==
    /\ last.route = "status" /\ last.n > 1 /\ now > 0
    /\ last.body = lastDeviceStatus
    /\ ~last.body.online

====
